---- MODULE Spec2Model ----
(***************************************************************************)
(* Weather dashboard (src/src/App.tsx): the React component App, its view  *)
(* state, the initial load of DEFAULT_CITIES, handleSearch, refreshWeather *)
(* and the weather API as a nondeterministic environment.                  *)
(***************************************************************************)
EXTENDS Integers, Sequences, FiniteSets, TLC

\* ---------------------------------------------------------------- bounds
\* number of default cities the model loads (a prefix of DEFAULT_CITIES)
NumCities == 2
\* the model renders the temperatures -MaxTemp .. MaxTemp (degrees Celsius)
MaxTemp == 100
\* longest text typed into the search box
MaxQueryLen == 1
\* most cards the model lets the collection grow to
MaxCards == 3

\* ------------------------------------------------------------- constants
AllDefaultCities == <<"London", "New York", "Tokyo", "Paris", "Sydney">>

DEFAULT_CITIES == SubSeq(AllDefaultCities, 1, NumCities)

N == Len(DEFAULT_CITIES)

\* the city ids the API may put in response.data.id
Ids == {1, 2}

\* the display names the API may put in response.data.name
Names == {"London", "New York"}

\* response.data.main.temp, the payload of a record (degrees Celsius)
Temps == {0, 100}

\* WeatherData (types.ts): the fields that identify a record and one payload
\* field standing for the measured values of that fetch
WeatherData == [id : Ids, city : Names, temperature : Temps]

\* fetchWeatherData returns null on any failure
NULL == [id |-> 0, city |-> "", temperature |-> 0]

\* every value fetchWeatherData can return
Responses == WeatherData \cup {NULL}

\* a slot of the Promise.all result array that has not been filled yet, and
\* a promise of weatherPromises before loadInitialData has created it
UNSET == [id |-> -1, city |-> "", temperature |-> 0]

\* a promise of weatherPromises whose fetch is in flight
PENDING == [id |-> -2, city |-> "", temperature |-> 0]

Chars == {" ", "a"}

\* texts of the search box: sequences of characters
Queries == UNION {[1..n -> Chars] : n \in 0..MaxQueryLen}

ErrNotFound == "City not found. Please try again."

VARIABLES
    weatherData,      \* useState<WeatherData[]>([])
    loading,          \* useState(true)
    searchCity,       \* useState('')
    error,            \* useState('')
    retrying,         \* useState(false)
    weatherPromises,  \* loadInitialData: one promise per default city
    results,          \* loadInitialData: the array Promise.all is filling
    searches,         \* handleSearch calls suspended at their await (the query of each)
    refreshes,        \* refreshWeather calls suspended at their await
    lastEvent,        \* history: the step taken last and the branch it took
    isCelsius,        \* useState(true)
    searchHist,       \* history: what became of the search submitted last
    race              \* history: a search and a refresh that were in flight together

vars == <<weatherData, loading, searchCity, error, retrying,
          weatherPromises, results, searches, refreshes, lastEvent,
          isCelsius, searchHist, race>>

\* the history variables that only SpecHist keeps, and the unit flag
hist == <<searchHist, race>>

\* ------------------------------------------------------- pure functions
IsSpace(c) == c = " "

RECURSIVE TrimStart(_)
TrimStart(s) ==
    IF s = <<>> THEN <<>>
    ELSE IF IsSpace(Head(s)) THEN TrimStart(Tail(s)) ELSE s

RECURSIVE TrimEnd(_)
TrimEnd(s) ==
    IF s = <<>> THEN <<>>
    ELSE IF IsSpace(s[Len(s)]) THEN TrimEnd(SubSeq(s, 1, Len(s) - 1)) ELSE s

\* a trim that strips nothing
TrimNothing(s) == s

\* String.prototype.trim
Trim(s) == TrimEnd(TrimStart(s))

\* Array.prototype.filter(data => data !== null)
RECURSIVE FilterNotNull(_)
FilterNotNull(s) ==
    IF s = <<>> THEN <<>>
    ELSE IF Head(s) # NULL THEN <<Head(s)>> \o FilterNotNull(Tail(s))
         ELSE FilterNotNull(Tail(s))

\* prev.filter(item => item.city !== newWeatherData.city)
RECURSIVE FilterOtherCity(_, _)
FilterOtherCity(prev, city) ==
    IF prev = <<>> THEN <<>>
    ELSE IF Head(prev).city # city
         THEN <<Head(prev)>> \o FilterOtherCity(Tail(prev), city)
         ELSE FilterOtherCity(Tail(prev), city)

\* prev.filter(item => item.id !== newWeatherData.id)
FilterOtherId(prev, id) ==
    SelectSeq(prev, LAMBDA item : item.id # id)

\* an updater that removes the records with the new record's id
SearchUpdateById(prev, newWeatherData) ==
    <<newWeatherData>> \o FilterOtherId(prev, newWeatherData.id)

\* an updater that prepends without removing anything
SearchUpdateNoFilter(prev, newWeatherData) ==
    <<newWeatherData>> \o prev

\* the updater of handleSearch: [newWeatherData, ...filtered]
SearchUpdate(prev, newWeatherData) ==
    <<newWeatherData>> \o FilterOtherCity(prev, newWeatherData.city)

\* the updater of refreshWeather: prev.map(data => data.id === cityId ? updatedData : data)
RefreshUpdate(prev, cityId, updatedData) ==
    [k \in 1..Len(prev) |-> IF prev[k].id = cityId THEN updatedData ELSE prev[k]]

\* a find that falls back to the first card when no record has the id
FindIndexOrFirst(data, cityId) ==
    IF \E k \in 1..Len(data) : data[k].id = cityId
    THEN CHOOSE k \in 1..Len(data) :
            /\ data[k].id = cityId
            /\ \A j \in 1..(k - 1) : data[j].id # cityId
    ELSE IF Len(data) > 0 THEN 1 ELSE 0

\* weatherData.find(data => data.id === cityId): index of the first match, 0 if none
FindIndex(data, cityId) ==
    IF \E k \in 1..Len(data) : data[k].id = cityId
    THEN CHOOSE k \in 1..Len(data) :
            /\ data[k].id = cityId
            /\ \A j \in 1..(k - 1) : data[j].id # cityId
    ELSE 0

\* a join that keeps the results in the order the promises settled
PromiseAllPush(res, i, resp) ==
    LET free == {k \in 1..Len(res) : res[k] = UNSET}
        first == CHOOSE k \in free : \A m \in free : k <= m
    IN [res EXCEPT ![first] = resp]

\* Promise.all keeps each result at the index of its promise
PromiseAllStore(res, i, resp) == [res EXCEPT ![i] = resp]

\* sequence s without its k-th element
RemoveAt(s, k) == SubSeq(s, 1, k - 1) \o SubSeq(s, k + 1, Len(s))

\* a handleSearch that empties the collection when its fetch failed
SearchResultClear(prev, resp) ==
    IF resp # NULL THEN SearchUpdate(prev, resp) ELSE <<>>

\* what handleSearch leaves in weatherData when its fetch returned resp
SearchResult(prev, resp) ==
    IF resp # NULL THEN SearchUpdate(prev, resp) ELSE prev

\* a handleSearch that shows the message whatever its fetch returned
SearchErrorAlways(err, resp) == ErrNotFound

\* what handleSearch leaves in error when its fetch returned resp
SearchError(err, resp) ==
    IF resp # NULL THEN err ELSE ErrNotFound

\* a refreshWeather that drops the card when its fetch failed
RefreshResultDrop(prev, cityId, resp) ==
    IF resp # NULL THEN RefreshUpdate(prev, cityId, resp)
    ELSE SelectSeq(prev, LAMBDA data : data.id # cityId)

\* what refreshWeather leaves in weatherData when its fetch returned resp
RefreshResult(prev, cityId, resp) ==
    IF resp # NULL THEN RefreshUpdate(prev, cityId, resp) ELSE prev

\* the promises of the initial load that have not settled
InitPending == {i \in 1..N : weatherPromises[i] = PENDING}

\* no search and refresh have been in flight together since the last fetch
\* of either kind was issued; hit tells whether the refreshed id was still in
\* the collection when the refresh resolved
NoRace ==
    [by |-> "none", cityId |-> 0, city |-> "", first |-> NULL, last |-> NULL,
     hit |-> FALSE]

\* JavaScript numbers with one decimal digit in base 5, as a count of fifths
Fifths(n) == 5 * n

\* convertTemp without the offset of the Fahrenheit scale
convertTempNoOffset(celsius) ==
    IF isCelsius THEN Fifths(celsius) ELSE celsius * 9

\* convertTemp: isCelsius ? celsius : (celsius * 9/5) + 32, in fifths
convertTemp(celsius) ==
    IF isCelsius THEN Fifths(celsius) ELSE celsius * 9 + Fifths(32)

\* Math.round of a number given in fifths: the nearest integer, halves up
MathRound(temp) == (2 * temp + 5) \div 10

\* formatTemp: `${Math.round(temp)}°${isCelsius ? 'C' : 'F'}`
formatTemp(temp) ==
    ToString(MathRound(temp)) \o "°" \o (IF isCelsius THEN "C" ELSE "F")

\* the temperature text rendered on the k-th card
DisplayedTemp(k) == formatTemp(convertTemp(weatherData[k].temperature))

\* ------------------------------------------------------------------ Init
Init ==
    /\ weatherData = <<>>
    /\ loading = TRUE
    /\ searchCity = <<>>
    /\ error = ""
    /\ retrying = FALSE
    /\ weatherPromises = [i \in 1..N |-> UNSET]
    /\ results = [i \in 1..N |-> UNSET]
    /\ searches = <<>>
    /\ refreshes = <<>>
    /\ lastEvent = "mount"
    /\ isCelsius = TRUE
    /\ searchHist = "none"
    /\ race = NoRace

\* --------------------------------------------------------------- actions
\* useEffect(..., []): loadInitialData issues one fetch per default city
loadInitialData ==
    /\ lastEvent = "mount"
    /\ weatherPromises' = [i \in 1..N |-> PENDING]
    /\ lastEvent' = "init:start"
    /\ UNCHANGED <<weatherData, loading, searchCity, error, retrying,
                   results, searches, refreshes>>

\* a load that shows each result as soon as its fetch has returned
InitFetchReturnsEager(i, resp) ==
    /\ i \in InitPending
    /\ LET res == PromiseAllStore(results, i, resp) IN
         /\ weatherData' = FilterNotNull(SelectSeq(res, LAMBDA x : x # UNSET))
         /\ IF InitPending = {i}
            THEN /\ loading' = FALSE
                 /\ weatherPromises' = [k \in 1..N |-> UNSET]
                 /\ results' = [k \in 1..N |-> UNSET]
                 /\ lastEvent' = "init:settled"
            ELSE /\ weatherPromises' = [weatherPromises EXCEPT ![i] = resp]
                 /\ results' = res
                 /\ lastEvent' = "init:fetch"
                 /\ UNCHANGED loading
    /\ UNCHANGED <<searchCity, error, retrying, searches, refreshes>>

\* the fetch of default city i returns resp; when it is the last one,
\* Promise.all resolves and loadInitialData runs to its end
InitFetchReturns(i, resp) ==
    /\ i \in InitPending
    /\ LET res == PromiseAllStore(results, i, resp) IN
         IF InitPending = {i}
         THEN /\ weatherData' = FilterNotNull(res)
              /\ loading' = FALSE
              /\ weatherPromises' = [k \in 1..N |-> UNSET]
              /\ results' = [k \in 1..N |-> UNSET]
              /\ lastEvent' = "init:settled"
         ELSE /\ weatherPromises' = [weatherPromises EXCEPT ![i] = resp]
              /\ results' = res
              /\ lastEvent' = "init:fetch"
              /\ UNCHANGED <<weatherData, loading>>
    /\ UNCHANGED <<searchCity, error, retrying, searches, refreshes>>

\* onChange of the search box; React runs the pending effect of the first
\* render before it handles an input event
TypeQuery(q) ==
    /\ lastEvent # "mount"
    /\ q # searchCity
    /\ searchCity' = q
    /\ lastEvent' = "type"
    /\ UNCHANGED <<weatherData, loading, error, retrying, weatherPromises,
                   results, searches, refreshes>>

\* a submit button that is never disabled
SubmitAlways == TRUE

\* the submit button is rendered with disabled={loading}
SubmitEnabled == ~loading

\* a handleSearch that leaves the error message of the last search in place
handleSearchKeepError ==
    /\ SubmitEnabled
    /\ IF Trim(searchCity) = <<>>
       THEN /\ lastEvent' = "search:blank"
            /\ UNCHANGED <<loading, error, searches>>
       ELSE /\ lastEvent' = IF error # "" THEN "search:fetch:cleared" ELSE "search:fetch"
            /\ loading' = TRUE
            /\ UNCHANGED error
            /\ searches' = Append(searches, searchCity)
    /\ UNCHANGED <<weatherData, searchCity, retrying, weatherPromises,
                   results, refreshes>>

\* handleSearch up to its await
handleSearch ==
    /\ SubmitEnabled
    /\ IF Trim(searchCity) = <<>>
       THEN /\ lastEvent' = "search:blank"
            /\ UNCHANGED <<loading, error, searches>>
       ELSE /\ lastEvent' = IF error # "" THEN "search:fetch:cleared" ELSE "search:fetch"
            /\ loading' = TRUE
            /\ error' = ""
            /\ searches' = Append(searches, searchCity)
    /\ UNCHANGED <<weatherData, searchCity, retrying, weatherPromises,
                   results, refreshes>>

\* a handleSearch that leaves the loading state only when its fetch succeeded
SearchFetchReturnsStuck(k, resp) ==
    /\ k \in 1..Len(searches)
    /\ searches' = RemoveAt(searches, k)
    /\ weatherData' = SearchResult(weatherData, resp)
    /\ error' = SearchError(error, resp)
    /\ searchCity' = IF resp # NULL THEN <<>> ELSE searchCity
    /\ loading' = (resp = NULL)
    /\ lastEvent' = IF resp = NULL THEN "search:failed"
                    ELSE IF \E j \in 1..Len(weatherData) : weatherData[j].city = resp.city
                         THEN "search:moved"
                         ELSE "search:added"
    /\ UNCHANGED <<retrying, weatherPromises, results, refreshes>>

\* handleSearch after its await: the k-th search in flight returns resp
SearchFetchReturns(k, resp) ==
    /\ k \in 1..Len(searches)
    /\ searches' = RemoveAt(searches, k)
    /\ weatherData' = SearchResult(weatherData, resp)
    /\ error' = SearchError(error, resp)
    /\ searchCity' = IF resp # NULL THEN <<>> ELSE searchCity
    /\ loading' = FALSE
    /\ lastEvent' = IF resp = NULL THEN "search:failed"
                    ELSE IF \E j \in 1..Len(weatherData) : weatherData[j].city = resp.city
                         THEN "search:moved"
                         ELSE "search:added"
    /\ UNCHANGED <<retrying, weatherPromises, results, refreshes>>

\* refresh buttons that stay enabled while a refresh is pending
RefreshWhenNotLoading == ~loading

\* refresh buttons that are rendered while loading is true
RefreshWhenNotRetrying == ~retrying

\* the cards are rendered only when loading is false, each refresh button
\* with disabled={retrying}
RefreshEnabled == ~loading /\ ~retrying

\* refreshWeather up to its await
refreshWeather(cityId) ==
    /\ RefreshEnabled
    /\ LET at == FindIndex(weatherData, cityId) IN
         IF at = 0
         THEN /\ lastEvent' = "refresh:absent"
              /\ UNCHANGED <<retrying, refreshes>>
         ELSE /\ lastEvent' = "refresh:fetch"
              /\ retrying' = TRUE
              /\ refreshes' = Append(refreshes,
                                [cityId |-> cityId, city |-> weatherData[at].city])
    /\ UNCHANGED <<weatherData, loading, searchCity, error, weatherPromises,
                   results, searches>>

\* refreshWeather after its await: the k-th refresh in flight returns resp
RefreshFetchReturns(k, resp) ==
    /\ k \in 1..Len(refreshes)
    /\ refreshes' = RemoveAt(refreshes, k)
    /\ retrying' = FALSE
    /\ weatherData' = RefreshResult(weatherData, refreshes[k].cityId, resp)
    /\ lastEvent' = IF resp = NULL THEN "refresh:failed"
                    ELSE IF FindIndex(weatherData, refreshes[k].cityId) = 0
                         THEN "refresh:gone"
                         ELSE "refresh:replaced"
    /\ UNCHANGED <<loading, searchCity, error, weatherPromises, results, searches>>

\* the responses that keep the collection within MaxCards cards
Fits(resp) ==
    resp # NULL => Len(SearchUpdate(weatherData, resp)) <= MaxCards

Next ==
    \/ loadInitialData /\ UNCHANGED <<isCelsius, hist>>
    \/ \E i \in 1..N, resp \in Responses :
          InitFetchReturns(i, resp) /\ UNCHANGED <<isCelsius, hist>>
    \/ \E q \in Queries : TypeQuery(q) /\ UNCHANGED <<isCelsius, hist>>
    \/ handleSearch /\ UNCHANGED <<isCelsius, hist>>
    \/ \E k \in 1..Len(searches), resp \in Responses :
          /\ Fits(resp)
          /\ SearchFetchReturns(k, resp)
          /\ UNCHANGED <<isCelsius, hist>>
    \/ \E cityId \in Ids : refreshWeather(cityId) /\ UNCHANGED <<isCelsius, hist>>
    \/ \E k \in 1..Len(refreshes), resp \in Responses :
          RefreshFetchReturns(k, resp) /\ UNCHANGED <<isCelsius, hist>>

Spec == Init /\ [][Next]_vars

\* ------------------------------------------------------------- fairness
\* the effect of the first render runs
EffectRuns == loadInitialData /\ UNCHANGED <<isCelsius, hist>>

\* a fetch of the initial load completes, with a record or with a failure
InitFetchCompletes ==
    \E i \in 1..N, resp \in Responses :
       InitFetchReturns(i, resp) /\ UNCHANGED <<isCelsius, hist>>

\* the fetch of a search completes, with a record or with a failure
SearchFetchCompletes ==
    \E k \in 1..Len(searches), resp \in Responses :
       /\ Fits(resp)
       /\ SearchFetchReturns(k, resp)
       /\ UNCHANGED <<isCelsius, hist>>

\* the fetch of a refresh completes, with a record or with a failure
RefreshFetchCompletes ==
    \E k \in 1..Len(refreshes), resp \in Responses :
       RefreshFetchReturns(k, resp) /\ UNCHANGED <<isCelsius, hist>>

\* the program when every fetch that was issued eventually completes
FairSpec ==
    /\ Init
    /\ [][Next]_vars
    /\ WF_vars(EffectRuns)
    /\ WF_vars(InitFetchCompletes)
    /\ WF_vars(SearchFetchCompletes)
    /\ WF_vars(RefreshFetchCompletes)

\* ------------------------------------------------- the steps with history
\* history of a handleSearch step: a submitted query is pending, and it ends
\* the record of an earlier race
SubmitHist ==
    IF Len(searches') > Len(searches)
    THEN searchHist' = "pending" /\ race' = NoRace
    ELSE UNCHANGED hist

\* history of a search fetch returning resp: the outcome of the search, and
\* its place in a race with the refresh in flight or just resolved
SearchReturnHist(resp) ==
    /\ searchHist' = IF resp = NULL THEN "failed" ELSE "ok"
    /\ race' =
         IF resp = NULL THEN NoRace
         ELSE IF race.by = "refresh"
              THEN [race EXCEPT !.by = "search-last", !.last = resp]
              ELSE IF refreshes # <<>>
                   THEN [by |-> "search", cityId |-> refreshes[1].cityId,
                         city |-> refreshes[1].city, first |-> resp, last |-> NULL,
                         hit |-> FALSE]
                   ELSE NoRace

\* history of a refreshWeather step: a new refresh ends the record of an
\* earlier race
RefreshStartHist ==
    /\ race' = IF Len(refreshes') > Len(refreshes) THEN NoRace ELSE race
    /\ UNCHANGED searchHist

\* history of the k-th refresh fetch returning resp: its place in a race with
\* the search in flight or just resolved
RefreshReturnHist(k, resp) ==
    /\ race' =
         IF resp = NULL THEN NoRace
         ELSE IF race.by = "search"
              THEN [race EXCEPT !.by = "refresh-last", !.last = resp,
                                !.hit = FindIndex(weatherData, refreshes[k].cityId) # 0]
              ELSE IF searches # <<>>
                   THEN [by |-> "refresh", cityId |-> refreshes[k].cityId,
                         city |-> refreshes[k].city, first |-> resp, last |-> NULL,
                         hit |-> FindIndex(weatherData, refreshes[k].cityId) # 0]
                   ELSE NoRace
    /\ UNCHANGED searchHist

NextHist ==
    \/ loadInitialData /\ UNCHANGED <<isCelsius, hist>>
    \/ \E i \in 1..N, resp \in Responses :
          InitFetchReturns(i, resp) /\ UNCHANGED <<isCelsius, hist>>
    \/ \E q \in Queries : TypeQuery(q) /\ UNCHANGED <<isCelsius, hist>>
    \/ handleSearch /\ SubmitHist /\ UNCHANGED isCelsius
    \/ \E k \in 1..Len(searches), resp \in Responses :
          /\ Fits(resp)
          /\ SearchFetchReturns(k, resp)
          /\ SearchReturnHist(resp)
          /\ UNCHANGED isCelsius
    \/ \E cityId \in Ids :
          refreshWeather(cityId) /\ RefreshStartHist /\ UNCHANGED isCelsius
    \/ \E k \in 1..Len(refreshes), resp \in Responses :
          /\ RefreshFetchReturns(k, resp)
          /\ RefreshReturnHist(k, resp)
          /\ UNCHANGED isCelsius

\* the program with the history of its searches and of its races
SpecHist == Init /\ [][NextHist]_vars

\* the steps of the program with the history of its searches only
NextOutcome ==
    \/ loadInitialData /\ UNCHANGED <<isCelsius, hist>>
    \/ \E i \in 1..N, resp \in Responses :
          InitFetchReturns(i, resp) /\ UNCHANGED <<isCelsius, hist>>
    \/ \E q \in Queries : TypeQuery(q) /\ UNCHANGED <<isCelsius, hist>>
    \/ /\ handleSearch
       /\ searchHist' = IF Len(searches') > Len(searches) THEN "pending"
                         ELSE searchHist
       /\ UNCHANGED <<isCelsius, race>>
    \/ \E k \in 1..Len(searches), resp \in Responses :
          /\ Fits(resp)
          /\ SearchFetchReturns(k, resp)
          /\ searchHist' = IF resp = NULL THEN "failed" ELSE "ok"
          /\ UNCHANGED <<isCelsius, race>>
    \/ \E cityId \in Ids :
          refreshWeather(cityId) /\ UNCHANGED <<isCelsius, hist>>
    \/ \E k \in 1..Len(refreshes), resp \in Responses :
          RefreshFetchReturns(k, resp) /\ UNCHANGED <<isCelsius, hist>>

\* the program with the outcome of its last search
SpecOutcome == Init /\ [][NextOutcome]_vars

\* ------------------------------------------------------- the unit toggle
\* the temperatures the rendering is checked on
TempRange == (0 - MaxTemp)..MaxTemp

\* the dashboard after an initial load that brought one card, with any
\* temperature of TempRange
InitTemp ==
    /\ \E c \in TempRange :
          weatherData = <<[id |-> 1, city |-> "London", temperature |-> c]>>
    /\ loading = FALSE
    /\ searchCity = <<>>
    /\ error = ""
    /\ retrying = FALSE
    /\ weatherPromises = [i \in 1..N |-> UNSET]
    /\ results = [i \in 1..N |-> UNSET]
    /\ searches = <<>>
    /\ refreshes = <<>>
    /\ lastEvent = "init:settled"
    /\ isCelsius = TRUE
    /\ searchHist = "none"
    /\ race = NoRace

\* onClick of the unit button: setIsCelsius(!isCelsius)
ToggleUnit ==
    /\ isCelsius' = ~isCelsius
    /\ UNCHANGED <<weatherData, loading, searchCity, error, retrying,
                   weatherPromises, results, searches, refreshes, lastEvent, hist>>

NextTemp == ToggleUnit

\* the rendering of one card under the unit toggle
SpecTemp == InitTemp /\ [][NextTemp]_vars

\* ---------------------------------------------------------------- claims
\* the query is empty or consists of white space only
IsBlank(q) == \A i \in 1..Len(q) : q[i] = " "

\* the record with id cityId, if any, is in data
Present(data, cityId) == \E j \in 1..Len(data) : data[j].id = cityId

\* the number of records of data whose city is city
CountCity(data, city) == Cardinality({j \in 1..Len(data) : data[j].city = city})

\* C1: when the initial load settles, weatherData holds the records of the
\* default cities whose fetch succeeded, in the order of DEFAULT_CITIES
\* whatever the order the responses arrived in, and its length is N minus the
\* number of failed fetches.
C1_InitialLoad ==
    [][\A i \in 1..N, resp \in Responses :
         (InitFetchReturns(i, resp) /\ InitPending = {i}) =>
            LET settled == [weatherPromises EXCEPT ![i] = resp]
                ok == {j \in 1..N : settled[j] # NULL}
                failed == {j \in 1..N : settled[j] = NULL}
            IN /\ Len(weatherData') = N - Cardinality(failed)
               /\ Len(weatherData') <= N
               /\ \A j \in ok :
                    weatherData'[Cardinality({m \in ok : m <= j})] = settled[j]
      ]_vars

\* the initial load has just settled with exactly one failed fetch
C1_Witness ==
    /\ lastEvent = "init:settled"
    /\ Len(weatherData) = N - 1
    /\ ~loading

\* C2: in every reachable state no two records of weatherData have the same id.
C2_UniqueIds ==
    \A j, k \in 1..Len(weatherData) :
        j # k => weatherData[j].id # weatherData[k].id

\* C3: a search whose fetch succeeds with record r turns the collection into r
\* followed by the records whose city differs from r.city, in their previous
\* order; r is at index 0 and no other record has r's city.
C3_SearchSuccess ==
    [][\A k \in 1..Len(searches), r \in WeatherData :
         SearchFetchReturns(k, r) =>
            /\ weatherData' = <<r>> \o SelectSeq(weatherData, LAMBDA x : x.city # r.city)
            /\ weatherData'[1] = r
            /\ \A j \in 2..Len(weatherData') : weatherData'[j].city # r.city
      ]_vars

\* a successful search has just put a new city in front of the cards kept
C3_Witness ==
    /\ lastEvent = "search:added"
    /\ Len(weatherData) >= 2
    /\ searches = <<>>

\* C4 as claimed: a successful search whose returned city is already present
\* leaves the size unchanged, with the new record at index 0, the city not
\* duplicated and every other record unchanged.
C4_SameSize ==
    [][\A k \in 1..Len(searches), r \in WeatherData :
         (SearchFetchReturns(k, r) /\ CountCity(weatherData, r.city) >= 1) =>
            /\ Len(weatherData') = Len(weatherData)
            /\ weatherData'[1] = r
            /\ CountCity(weatherData', r.city) = 1
            /\ Tail(weatherData') = SelectSeq(weatherData, LAMBDA x : x.city # r.city)
      ]_vars

\* C4 as amended: a successful search whose returned city is already present
\* never enlarges the collection: every record with that city is removed and
\* the new record is put at index 0, so the size is the old size minus the
\* number of records that had the city plus one (unchanged exactly when one
\* record had it); the records of other cities are unchanged, in order.
C4_NoGrowth ==
    [][\A k \in 1..Len(searches), r \in WeatherData :
         (SearchFetchReturns(k, r) /\ CountCity(weatherData, r.city) >= 1) =>
            /\ Len(weatherData') = Len(weatherData) - CountCity(weatherData, r.city) + 1
            /\ Len(weatherData') <= Len(weatherData)
            /\ (Len(weatherData') = Len(weatherData)) <=> (CountCity(weatherData, r.city) = 1)
            /\ weatherData'[1] = r
            /\ CountCity(weatherData', r.city) = 1
            /\ Tail(weatherData') = SelectSeq(weatherData, LAMBDA x : x.city # r.city)
      ]_vars

\* a successful search has just moved a city that was present to the front
C4_Witness ==
    /\ lastEvent = "search:moved"
    /\ Len(weatherData) >= 2
    /\ CountCity(weatherData, weatherData[1].city) = 1

\* C5: a search whose fetch fails leaves the collection as it was and sets a
\* non-empty error message.
C5_SearchFailure ==
    [][\A k \in 1..Len(searches) :
         SearchFetchReturns(k, NULL) =>
            /\ weatherData' = weatherData
            /\ error' # ""
      ]_vars

\* a search has just failed on a collection that holds cards
C5_Witness ==
    /\ lastEvent = "search:failed"
    /\ Len(weatherData) >= 1
    /\ error # ""

\* C6: submitting an empty or white-space-only query issues no fetch and
\* leaves the collection, the error message and the loading flag unchanged.
C6_BlankSearch ==
    [][(handleSearch /\ IsBlank(searchCity)) =>
          UNCHANGED <<weatherData, error, loading, searches, searchCity,
                      retrying, refreshes>>
      ]_vars

\* a white-space-only query has just been submitted while an error was shown
C6_Witness ==
    /\ lastEvent = "search:blank"
    /\ searchCity # <<>>
    /\ error # ""
    /\ searches = <<>>

\* C7: refreshWeather(id) with an id no record has issues no fetch, does not
\* raise the refreshing flag and leaves the collection and the error unchanged.
C7_RefreshAbsent ==
    [][\A cityId \in Ids :
         (refreshWeather(cityId) /\ ~Present(weatherData, cityId)) =>
            UNCHANGED <<weatherData, error, retrying, refreshes, loading,
                        searches, searchCity>>
      ]_vars

\* refreshWeather has just been called with an id that no card has
C7_Witness ==
    /\ lastEvent = "refresh:absent"
    /\ Len(weatherData) >= 1
    /\ ~retrying
    /\ refreshes = <<>>

\* C8: a successful refresh of a present record replaces the record at that
\* position by the fetched record and changes nothing else: length, order and
\* every other record stay, and the record there still has the refreshed id.
C8_RefreshInPlace ==
    [][\A k \in 1..Len(refreshes), r \in WeatherData :
         (RefreshFetchReturns(k, r) /\ Present(weatherData, refreshes[k].cityId)) =>
            LET cityId == refreshes[k].cityId
                at == CHOOSE j \in 1..Len(weatherData) :
                        /\ weatherData[j].id = cityId
                        /\ \A m \in 1..(j - 1) : weatherData[m].id # cityId
            IN /\ Len(weatherData') = Len(weatherData)
               /\ weatherData'[at] = r
               /\ weatherData'[at].id = cityId
               /\ \A j \in 1..Len(weatherData) :
                    j # at => weatherData'[j] = weatherData[j]
      ]_vars

\* C9: a refresh whose fetch fails leaves the collection and the error message
\* unchanged; the refreshing flag goes back to false and nothing else changes.
C9_RefreshFailure ==
    [][\A k \in 1..Len(refreshes) :
         RefreshFetchReturns(k, NULL) =>
            /\ weatherData' = weatherData
            /\ error' = error
            /\ retrying' = FALSE
            /\ UNCHANGED <<loading, searchCity, searches>>
      ]_vars

\* a refresh has just failed while an error message was shown
C9_Witness ==
    /\ lastEvent = "refresh:failed"
    /\ error # ""
    /\ Len(weatherData) >= 1
    /\ ~retrying

\* C10: at most one search fetch is in flight, and loading is true whenever
\* one is.
C10_OneSearch ==
    /\ Len(searches) <= 1
    /\ Len(searches) >= 1 => loading

\* a search is in flight while a refresh is pending
C10_Witness ==
    /\ Len(searches) = 1
    /\ Len(refreshes) = 1
    /\ loading

\* C11: at most one refresh fetch is in flight across all records, retrying is
\* true exactly while one is in flight, and no refresh is started while
\* retrying is true.
C11_OneRefresh ==
    /\ [](/\ Len(refreshes) <= 1
          /\ retrying <=> (Len(refreshes) = 1))
    /\ [][Len(refreshes') > Len(refreshes) => ~retrying]_vars

\* a refresh is in flight while the cards and their refresh buttons are shown
C11_Witness ==
    /\ Len(refreshes) = 1
    /\ retrying
    /\ ~loading
    /\ Len(weatherData) >= 2

\* a search and a refresh that were in flight together have both succeeded
\* (race.first resolved first, race.last resolved last), and no fetch has been
\* issued since
BothResolved == race.by \in {"search-last", "refresh-last"}

\* C12: a search and a refresh can be in flight together, and when both succeed
\* for the same city the record of that city left in the collection after
\* both have resolved is the one that resolved last, in either order.
C12_LastWins ==
    (/\ BothResolved
     /\ race.first.id = race.last.id
     /\ race.first.city = race.last.city)
    => /\ \E j \in 1..Len(weatherData) : weatherData[j] = race.last
       /\ \A j \in 1..Len(weatherData) :
            weatherData[j].city = race.last.city => weatherData[j] = race.last

\* C12 when both responses also carry the id that was refreshed
C12_LastWinsSameId ==
    (/\ BothResolved
     /\ race.first.id = race.cityId
     /\ race.last.id = race.cityId
     /\ race.first.city = race.last.city)
    => /\ \E j \in 1..Len(weatherData) : weatherData[j] = race.last
       /\ \A j \in 1..Len(weatherData) :
            (weatherData[j].city = race.last.city \/ weatherData[j].id = race.cityId)
               => weatherData[j] = race.last

\* C13 as claimed: after any search submission made while an error message is
\* shown, the error message is empty, and it stays empty until the fetch of
\* that submission resolves.
C13_ClearedOnAnySubmit ==
    /\ [][(handleSearch /\ error # "") => error' = ""]_vars
    /\ [](searches # <<>> => error = "")

\* C13 as amended: after any submission of a non-blank query made while an
\* error message is shown, the error message is empty, and it stays empty
\* until the fetch of that submission resolves; a blank submission leaves the
\* message as it is.
C13_ClearedOnSubmit ==
    /\ [][(handleSearch /\ ~IsBlank(searchCity) /\ error # "") =>
            (error' = "" /\ Len(searches') = Len(searches) + 1)]_vars
    /\ [][(handleSearch /\ IsBlank(searchCity)) => error' = error]_vars
    /\ [](searches # <<>> => error = "")

\* a query submitted while an error was shown is in flight, the error cleared
C13_Witness ==
    /\ lastEvent = "search:fetch:cleared"
    /\ Len(searches) = 1
    /\ error = ""

\* the integer nearest to num / 5
Nearest(num) ==
    CHOOSE f \in (0 - 10 * MaxTemp - 100)..(10 * MaxTemp + 100) :
        /\ 2 * (5 * f - num) <= 5
        /\ 2 * (num - 5 * f) < 5

\* C14: for every integer Celsius value c of the range, the card shows c with
\* the suffix °C when isCelsius is true and round(c * 9/5 + 32) with the suffix
\* °F when it is false (0 shows as 0°C and 32°F, 100 as 212°F); the conversion
\* never changes the stored Celsius value.
C14_DisplayedTemp ==
    /\ [](\A k \in 1..Len(weatherData) :
            LET c == weatherData[k].temperature IN
              /\ isCelsius => DisplayedTemp(k) = ToString(c) \o "°C"
              /\ ~isCelsius => DisplayedTemp(k) = ToString(Nearest(9 * c + 160)) \o "°F"
              /\ (c = 0 /\ isCelsius) => DisplayedTemp(k) = "0°C"
              /\ (c = 0 /\ ~isCelsius) => DisplayedTemp(k) = "32°F"
              /\ (c = 100 /\ ~isCelsius) => DisplayedTemp(k) = "212°F")
    /\ [][isCelsius' # isCelsius => weatherData' = weatherData]_vars

\* a card of 100 degrees Celsius is shown in Fahrenheit
C14_Witness ==
    /\ ~isCelsius
    /\ Len(weatherData) = 1
    /\ weatherData[1].temperature = 100
    /\ DisplayedTemp(1) = "212°F"

\* the initial load has not settled: its effect has not run yet, or one of
\* its fetches is still in flight
InitialLoadRunning == lastEvent = "mount" \/ InitPending # {}

\* C15: during the initial load the collection stays empty and loading stays
\* true until every default-city fetch has completed; no partial result is
\* applied earlier, and a failing fetch neither cancels the other fetches nor
\* keeps them from contributing their records.
C15_NoPartialLoad ==
    /\ [](InitialLoadRunning => (weatherData = <<>> /\ loading))
    /\ [][\A i \in 1..N :
            (InitFetchReturns(i, NULL) /\ InitPending # {i}) =>
               /\ InitPending' = InitPending \ {i}
               /\ \A j \in 1..N : j # i => weatherPromises'[j] = weatherPromises[j]
         ]_vars
    /\ [][\A i \in 1..N, resp \in WeatherData :
            (InitFetchReturns(i, resp) /\ InitPending = {i}) =>
               /\ \E j \in 1..Len(weatherData') : weatherData'[j] = resp
               /\ \A m \in 1..N :
                    (m # i /\ weatherPromises[m] # NULL) =>
                       \E j \in 1..Len(weatherData') : weatherData'[j] = weatherPromises[m]
         ]_vars

\* a fetch of the initial load has failed and another is still in flight:
\* nothing is shown yet
C15_Witness ==
    /\ \E i \in 1..N : weatherPromises[i] = NULL
    /\ InitPending # {}
    /\ weatherData = <<>>
    /\ loading

\* C16: when every issued fetch eventually completes, loading eventually
\* becomes false after the initial load and after every search, and retrying
\* eventually becomes false after every refresh, whatever fetches fail.
C16_Settles ==
    /\ loading ~> ~loading
    /\ retrying ~> ~retrying
    /\ (searches # <<>>) ~> (searches = <<>> /\ ~loading)
    /\ (refreshes # <<>>) ~> (refreshes = <<>> /\ ~retrying)

\* a search and a refresh have both failed and the dashboard is idle again
C16_Witness ==
    /\ lastEvent \in {"search:failed", "refresh:failed"}
    /\ error # ""
    /\ ~loading
    /\ ~retrying
    /\ searches = <<>>
    /\ refreshes = <<>>

\* C17: only a failed search sets the error message: in every reachable state
\* the error message is non-empty only if the most recently resolved search
\* failed and no search was submitted with a non-blank query since; a fetch
\* of the initial load or of a refresh, failed or not, never changes it.
C17_OnlyFailedSearch ==
    /\ [](error # "" => searchHist = "failed")
    /\ [][\A resp \in Responses :
            ((\E i \in 1..N : InitFetchReturns(i, resp))
               \/ (\E k \in 1..Len(refreshes) : RefreshFetchReturns(k, resp)))
            => error' = error]_vars

\* the message of a failed search is still shown after a refresh failed
C17_Witness ==
    /\ lastEvent = "refresh:failed"
    /\ searchHist = "failed"
    /\ error = ErrNotFound

\* a search and a refresh are in flight together
Overlap == searches # <<>> /\ refreshes # <<>>

\* C18: while loading is true no operation can be started; no search or
\* refresh starts before the initial load has settled, so the initial load
\* replaces an empty collection; a refresh is never started while a search is
\* in flight, and an overlap begins only with the submission of a search
\* while a refresh is pending.
C18_NoStartWhileLoading ==
    /\ [][(handleSearch \/ \E cityId \in Ids : refreshWeather(cityId))
            => ~loading]_vars
    /\ [](InitialLoadRunning =>
            /\ loading
            /\ weatherData = <<>>
            /\ searches = <<>>
            /\ refreshes = <<>>)
    /\ [][Len(refreshes') > Len(refreshes) => searches = <<>>]_vars
    /\ [][(Overlap' /\ ~Overlap) => (handleSearch /\ refreshes # <<>>)]_vars

\* a search has just been submitted while a refresh is pending
C18_Witness ==
    /\ lastEvent \in {"search:fetch", "search:fetch:cleared"}
    /\ Overlap
    /\ Len(weatherData) >= 1

\* of a search and a refresh that overlapped and both succeeded: the record
\* the search fetched, and the record the refresh fetched
RaceSearched == IF race.by = "search-last" THEN race.last ELSE race.first
RaceRefreshed == IF race.by = "search-last" THEN race.first ELSE race.last

\* C19: no lost update between overlapping operations on different cities:
\* after a refresh of record A and a successful search for a different city B
\* that were in flight together have both resolved, in either order, the
\* collection holds the searched record B at index 0 and the refreshed data
\* of A behind it.
C19_NoLostUpdate ==
    (BothResolved /\ RaceSearched.city # race.city)
    => /\ weatherData # <<>>
       /\ weatherData[1] = RaceSearched
       /\ \E j \in 2..Len(weatherData) : weatherData[j] = RaceRefreshed

\* C19 when the searched record also has another id than A, A was still in
\* the collection when its refresh resolved, and the refresh answered with the
\* id and the name of A
C19_NoLostUpdateDistinct ==
    (/\ BothResolved
     /\ race.hit
     /\ RaceSearched.city # race.city
     /\ RaceSearched.id # race.cityId
     /\ RaceRefreshed.id = race.cityId
     /\ RaceRefreshed.city = race.city)
    => /\ weatherData # <<>>
       /\ weatherData[1] = RaceSearched
       /\ \E j \in 2..Len(weatherData) : weatherData[j] = RaceRefreshed
       /\ \A j \in 2..Len(weatherData) :
            weatherData[j].id = race.cityId => weatherData[j] = RaceRefreshed

\* an overlap of the two operations on different cities and ids has resolved
C19_DistinctReached ==
    /\ BothResolved
    /\ race.hit
    /\ RaceSearched.city # race.city
    /\ RaceSearched.id # race.cityId
    /\ RaceRefreshed.id = race.cityId
    /\ RaceRefreshed.city = race.city
====
